---- MODULE Spec2Model ----
(***************************************************************************)
(* Reply tracking, event forwarding and inline-keyboard resolution of the  *)
(* Telegram personal API (src/main.py).                                    *)
(*                                                                         *)
(* Spec      : the lifespan, the send handler, the inbound-message         *)
(*             handler, the webhook delivery and the expiry sweeper over   *)
(*             the shared tracked_messages store.                          *)
(* SpecLocate: get_message_by_id, the direct lookup and history fallback.   *)
(* SpecClick : the click handler (validation, message lookup with the      *)
(*             history fallback, button matching, press, response).        *)
(* SpecErrors: each request handler's except clauses on each remote error. *)
(* SpecMedia : extract_media_info on each kind of attachment.              *)
(* SpecSweeper: Spec under a horizon whose cutoff cannot be computed.      *)
(* SpecFair  : Spec without a sink, the sweeper fairly scheduled and the   *)
(*             clock honouring its hourly timer.                           *)
(***************************************************************************)
EXTENDS Integers, Sequences, FiniteSets, TLC

(***************************************************************************)
(* Bounds of the model.                                                    *)
(***************************************************************************)
MaxTime == 1
MaxTracked == 2
MaxInFlight == 1
MaxFairTime == 2

(***************************************************************************)
(* Values.                                                                 *)
(***************************************************************************)
None == "None"
ChatIds == {-100123, 42}
MsgIds == {7, 8}
Me == "me"
UserIds == {Me, "other"}
SinkUrl == "http://sink"
ExpiryChoices == {0, 1}

\* asyncio.sleep(3600): one hour, the unit of the model's clock
SweepInterval == 1

\* a sweeper that sleeps two hours
NextWakeLate(t) == t + 2 * SweepInterval

\* when a sleep of the sweeper that starts at t ends: asyncio.sleep(3600)
NextWake(t) == t + SweepInterval

VARIABLES
    WEBHOOK_URL,         \* None or the sink's URL
    monitor_chat_ids,    \* the allow-list (empty: every chat)
    TRACK_EXPIRY_HOURS,  \* the expiry horizon, in hours
    my_user_id,          \* None until the lifespan has read the identity
    tracked_messages,    \* chat id -> sequence of <<message id, created at>>
    pc,                  \* the lifespan's position
    now,                 \* the wall clock, in hours
    wake,                \* when the sweeper's sleep ends
    sweeper,             \* the sweeper task: none, sleeping or terminated
    handlers,            \* inbound handler invocations suspended on a POST
    swept,               \* history: <<chat, id>> pairs the sweeper removed, not sent since
    last,                \* what the last step did and returned
    locate_call,         \* SpecLocate: a get_message_by_id call and what the remote holds
    locate_result,       \* SpecLocate: what the call returned
    click_call,          \* SpecClick: a click request and what the remote holds
    click_response,      \* SpecClick: the handler's response
    error_call,          \* SpecErrors: a handler and the failure of its remote call
    error_response,      \* SpecErrors: the handler's response
    media_message,       \* SpecMedia: a message with an attachment
    media_info           \* SpecMedia: what extract_media_info returned

vars == <<WEBHOOK_URL, monitor_chat_ids, TRACK_EXPIRY_HOURS, my_user_id,
          tracked_messages, pc, now, wake, sweeper, handlers, swept, last,
          locate_call, locate_result, click_call, click_response,
          error_call, error_response, media_message, media_info>>

config == <<WEBHOOK_URL, monitor_chat_ids, TRACK_EXPIRY_HOURS>>
tracking == <<my_user_id, tracked_messages, pc, now, wake, sweeper, handlers, swept,
              last>>
locating == <<locate_call, locate_result>>
clicking == <<click_call, click_response>>
failing == <<error_call, error_response>>
extracting == <<media_message, media_info>>
resolver == <<locating, clicking, failing, extracting>>

\* no call of one of the request handlers under way
LocateIdle == locate_call = [pc |-> "idle"] /\ locate_result = [kind |-> "idle"]
ClickIdle == click_call = [pc |-> "idle"] /\ click_response = [status |-> 0]
ErrorsIdle == error_call = [pc |-> "idle"] /\ error_response = [status |-> 0]
MediaIdle == media_message = [pc |-> "idle"] /\ media_info = <<>>

(***************************************************************************)
(* The tracked-message store.                                              *)
(***************************************************************************)
\* tracked_messages.get(chat_id, [])
Get(store, chat_id) == IF chat_id \in DOMAIN store THEN store[chat_id] ELSE <<>>

\* tracked_messages[numeric_chat_id].append((msg.id, datetime.now()))
RecordPrepend(store, chat_id, mid, ts) ==
    [c \in DOMAIN store \cup {chat_id} |->
        IF c = chat_id THEN <<<<mid, ts>>>> \o Get(store, chat_id) ELSE store[c]]

Record(store, chat_id, mid, ts) ==
    [c \in DOMAIN store \cup {chat_id} |->
        IF c = chat_id THEN Append(Get(store, chat_id), <<mid, ts>>) ELSE store[c]]

\* [(mid, ts) for mid, ts in tracked_messages[chat_id] if ts > cutoff]
KeepFromCutoff(entries, cutoff) ==
    LET Keep(e) == e[2] >= cutoff IN SelectSeq(entries, Keep)

Unexpired(entries, cutoff) ==
    LET Keep(e) == e[2] > cutoff IN SelectSeq(entries, Keep)

\* the body of the sweeper's loop: filter every chat, delete the emptied ones
Prune(store, cutoff) ==
    LET kept == {c \in DOMAIN store : Unexpired(store[c], cutoff) # <<>>}
    IN  [c \in kept |-> Unexpired(store[c], cutoff)]

\* the earliest time a datetime can hold (datetime.min), in hours on the
\* model's clock, and a horizon that reaches before it from every time the
\* clock shows
DatetimeMin == -4
OverflowingHours == MaxTime + 6

\* datetime.now() - timedelta(hours=TRACK_EXPIRY_HOURS) raises OverflowError
\* when the difference is before datetime.min
CutoffRaises(t, hours) == t - hours < DatetimeMin

\* the store holds an entry for this id in this chat (history bookkeeping)
HasEntry(store, chat_id, mid) ==
    chat_id \in DOMAIN store /\ \E i \in DOMAIN store[chat_id] : store[chat_id][i][1] = mid

TotalTracked(store) ==
    LET RECURSIVE Sum(_)
        Sum(S) == IF S = {} THEN 0
                  ELSE LET c == CHOOSE x \in S : TRUE
                       IN  Len(store[c]) + Sum(S \ {c})
    IN  Sum(DOMAIN store)

(***************************************************************************)
(* The inbound-message classifier.                                         *)
(***************************************************************************)
\* an inbound message: its chat and, when it is a reply, the message replied to
RepliedTo == [id : MsgIds, from_user : UserIds \cup {None}]
Messages == [chat_id : ChatIds, reply_to_message : {<<>>} \cup {<<r>> : r \in RepliedTo}]

IsReply(message) == message.reply_to_message # <<>>
ReplyToId(message) == message.reply_to_message[1].id
\* from_user.id if from_user else None
ReplyToUserId(message) == message.reply_to_message[1].from_user

\* any(mid == reply_to_id for mid, ts in tracked_messages.get(chat_id, []))
IsReplyToTrackedAnyChat(store, chat_id, reply_to_id) ==
    \E c \in DOMAIN store : \E i \in DOMAIN store[c] : store[c][i][1] = reply_to_id

IsReplyToTrackedUnexpired(store, chat_id, reply_to_id) ==
    \E i \in DOMAIN Get(store, chat_id) :
        /\ Get(store, chat_id)[i][1] = reply_to_id
        /\ Get(store, chat_id)[i][2] > now - TRACK_EXPIRY_HOURS

IsReplyToTracked(store, chat_id, reply_to_id) ==
    \E i \in DOMAIN Get(store, chat_id) : Get(store, chat_id)[i][1] = reply_to_id

\* reply_to_user_id == my_user_id
IsReplyToMe(reply_to_user_id, me) == reply_to_user_id = me

\* monitor_chat_ids and chat_id not in monitor_chat_ids
NotMonitored(chat_id, monitor) == monitor # {} /\ chat_id \notin monitor

\* the early returns of handle_incoming_message, in their order
\* the handler reaches its lookup of the store: a sink is configured, the chat
\* is allowed and the message is a reply
LookupReached(message) ==
    /\ WEBHOOK_URL # None
    /\ ~NotMonitored(message.chat_id, monitor_chat_ids)
    /\ IsReply(message)

\* the store after tracked_messages[chat_id]: indexing a defaultdict(list)
\* inserts an empty list under a missing key
AfterGetItem(store, chat_id) == [c \in DOMAIN store \cup {chat_id} |-> Get(store, c)]

\* the store after tracked_messages.get(chat_id, []): get never inserts
AfterGet(store, chat_id) == store

Dispatches(message) ==
    /\ WEBHOOK_URL # None
    /\ ~NotMonitored(message.chat_id, monitor_chat_ids)
    /\ IsReply(message)
    /\ \/ IsReplyToTracked(tracked_messages, message.chat_id, ReplyToId(message))
       \/ IsReplyToMe(ReplyToUserId(message), my_user_id)

BuildPayload(message) ==
    [event |-> "reply_received",
     chat_id |-> message.chat_id,
     reply_to_message |-> [id |-> ReplyToId(message),
                           from_user |-> ReplyToUserId(message)]]

(***************************************************************************)
(* The webhook delivery.                                                   *)
(***************************************************************************)
Outcomes == {"2xx", "non_2xx", "timeout", "connect_error"}
Exceptions == {"timeout", "connect_error"}

\* except Exception: every failure of the POST is caught and logged
CaughtTimeoutOnly(outcome) == outcome = "timeout"

Caught(outcome) == outcome \in Exceptions

\* nothing of send_webhook posts again
Retries(outcome) == FALSE

(***************************************************************************)
(* The send handler's translation of remote failures.                      *)
(***************************************************************************)
SendFailures == {"PeerIdInvalid", "UserNotParticipant", "ChannelPrivate",
                 "Flood", "BadRequest", "Unauthorized", "Exception"}

\* what app_client.send_message does: the sent message, or one of its errors
SendResults ==
    {[kind |-> "ok", id |-> m, chat_id |-> c] : m \in MsgIds, c \in ChatIds}
    \cup {[kind |-> f] : f \in SendFailures}

SendStatus(outcome) ==
    CASE outcome = "ok" -> 200
      [] outcome = "PeerIdInvalid" -> 404
      [] outcome = "UserNotParticipant" -> 403
      [] outcome = "ChannelPrivate" -> 403
      [] outcome = "Flood" -> 429
      [] outcome = "BadRequest" -> 400
      [] outcome = "Unauthorized" -> 401
      [] OTHER -> 500

(***************************************************************************)
(* get_message_by_id: the direct lookup and the history fallback.          *)
(***************************************************************************)
HistoryLimit == 20
MaxHistory == 22
TargetId == 7
OtherId == 8

\* a chat history, most recent first, with the target id at positions p1, p2
\* (0: nowhere); pos tells the entries apart
HistoryOf(len, p1, p2) ==
    [i \in 1..len |-> [id |-> IF i \in {p1, p2} THEN TargetId ELSE OtherId, pos |-> i]]

Histories ==
    {HistoryOf(len, 0, 0) : len \in 0..MaxHistory}
    \cup {HistoryOf(len, p1, 0) : len \in 1..MaxHistory, p1 \in 1..MaxHistory}
    \cup {HistoryOf(len, p1, p2) : len \in 1..MaxHistory, p1 \in 1..MaxHistory,
                                   p2 \in 1..MaxHistory}

\* what app_client.get_messages does: the message, nothing, or an error
DirectResults == {"found", "none", "raise"}

\* get_chat_history(chat_id, limit): the first `limit` entries
RecentOneShort(history, limit) ==
    SubSeq(history, 1, IF Len(history) < limit - 1 THEN Len(history) ELSE limit - 1)

Recent(history, limit) ==
    SubSeq(history, 1, IF Len(history) < limit THEN Len(history) ELSE limit)

\* for msg in ...: if msg.id == message_id: return msg  (0: the loop ran out)
RECURSIVE ScanHistory(_, _, _)
ScanHistory(entries, i, message_id) ==
    IF i > Len(entries) THEN 0
    ELSE IF entries[i].id = message_id THEN i
    ELSE ScanHistory(entries, i + 1, message_id)

get_message_by_id(remote, message_id) ==
    IF remote.direct = "found"
    THEN [kind |-> "msg", msg |-> [id |-> message_id, pos |-> 0],
          calls |-> <<"get_messages">>]
    ELSE IF remote.direct = "none"
    THEN [kind |-> "none", calls |-> <<"get_messages">>]
    ELSE IF ~remote.history_ok
    THEN [kind |-> "raise", calls |-> <<"get_messages", "get_chat_history">>]
    ELSE LET entries == Recent(remote.history, HistoryLimit)
             hit == ScanHistory(entries, 1, message_id)
         IN  IF hit = 0
             THEN [kind |-> "none", calls |-> <<"get_messages", "get_chat_history">>]
             ELSE [kind |-> "msg", msg |-> entries[hit],
                   calls |-> <<"get_messages", "get_chat_history">>]

LocateCalls ==
    {[pc |-> "call", message_id |-> TargetId, direct |-> d, history |-> h,
      history_ok |-> TRUE] : d \in DirectResults, h \in Histories}
    \cup {[pc |-> "call", message_id |-> TargetId, direct |-> d, history |-> <<>>,
           history_ok |-> FALSE] : d \in DirectResults}

(***************************************************************************)
(* Button texts and callback data.  A text is a tuple of characters; the   *)
(* empty tuple stands for the falsy values (None, "") the handler treats   *)
(* alike.  Callback data is absent, a str, or bytes.                       *)
(***************************************************************************)
MaxButtons == 2

Lower(ch) == CASE ch = "A" -> "a" [] ch = "B" -> "b" [] OTHER -> ch
\* str.lower()
LowerStr(text) == [i \in DOMAIN text |-> Lower(text[i])]

\* needle in hay
Contains(needle, hay) ==
    \E k \in 0..(Len(hay) - Len(needle)) : SubSeq(hay, k + 1, k + Len(needle)) = needle

\* bytes.decode('utf-8') of the bytes modelled: ASCII, and 0xFF, valid nowhere
Utf8Valid(bytes) == \A i \in DOMAIN bytes : bytes[i] < 128
Chr(b) == CASE b = 97 -> "a" [] b = 98 -> "b" [] b = 65 -> "A" [] OTHER -> "B"
Utf8Decode(bytes) == [i \in DOMAIN bytes |-> Chr(bytes[i])]

Buttons ==
    { [text |-> <<"A", "b">>, callback_data |-> [type |-> "str", value |-> <<"a", "b">>]],
      [text |-> <<"b">>,      callback_data |-> [type |-> "str", value |-> <<"a">>]],
      [text |-> <<"a">>,      callback_data |-> [type |-> "bytes", value |-> <<97>>]],
      [text |-> <<"b", "A">>, callback_data |-> [type |-> "bytes", value |-> <<255>>]],
      [text |-> <<"A", "b">>, callback_data |-> [type |-> "none"]] }

RequestTexts == {<<>>, <<"a">>, <<"B">>, <<"b", "a">>}
RequestData == {<<>>, <<"a">>, <<"a", "b">>, <<"A">>}

\* the inline keyboards of exactly n buttons: a first row, then the rest
RECURSIVE KeyboardsOf(_)
KeyboardsOf(n) ==
    IF n = 0 THEN {<<>>}
    ELSE UNION {{<<row>> \o rest : row \in [1..k -> Buttons], rest \in KeyboardsOf(n - k)}
                : k \in 1..n}

Markups ==
    {[kind |-> "none"], [kind |-> "reply_keyboard"]}
    \cup {[kind |-> "inline", inline_keyboard |-> kb]
            : kb \in UNION {KeyboardsOf(n) : n \in 0..MaxButtons}}

\* not request.button_text and not request.button_data
EitherMissing(button_text, button_data) == button_text = <<>> \/ button_data = <<>>

NeitherSupplied(button_text, button_data) == button_text = <<>> /\ button_data = <<>>

\* if isinstance(btn_callback_data, bytes): btn_callback_data.decode('utf-8')
DecodeRaises(callback_data) ==
    callback_data.type = "bytes" /\ ~Utf8Valid(callback_data.value)

Decoded(callback_data) ==
    IF callback_data.type = "bytes"
    THEN [type |-> "str", value |-> Utf8Decode(callback_data.value)]
    ELSE callback_data

\* request.button_text.lower() in button.text.lower()
TextMatches(button_text, button) == Contains(LowerStr(button_text), LowerStr(button.text))

\* btn_callback_data == request.button_data
DataMatches(button_data, decoded) == decoded.type = "str" /\ decoded.value = button_data

\* the two nested loops of click_button, from row r, column c
RECURSIVE ScanButtons(_, _, _, _, _)
ScanButtons(kb, r, c, button_text, button_data) ==
    IF r > Len(kb) THEN [kind |-> "none"]
    ELSE IF c > Len(kb[r]) THEN ScanButtons(kb, r + 1, 1, button_text, button_data)
    ELSE IF DecodeRaises(kb[r][c].callback_data) THEN [kind |-> "raise"]
    ELSE LET decoded == Decoded(kb[r][c].callback_data)
             hit == IF button_text # <<>> THEN TextMatches(button_text, kb[r][c])
                    ELSE IF button_data # <<>> THEN DataMatches(button_data, decoded)
                    ELSE FALSE
         IN  IF hit THEN [kind |-> "found", row |-> r, col |-> c, data |-> decoded]
             ELSE ScanButtons(kb, r, c + 1, button_text, button_data)

\* what request_callback_answer does
PressResults == {"ok", "Flood", "Exception"}

\* the answer request_callback_answer returns: <<>> for a falsy answer, else
\* <<a>> with a's message and url optional strings
AnswerMessages == {<<>>, <<"">>, <<"Done">>}
AnswerUrls == {<<>>, <<"http://bot/start">>}
Answers == {<<>>} \cup {<<a>> : a \in [message : AnswerMessages, url : AnswerUrls]}

\* the answers a press can come with: a failed press returns none
AnswersOf(press) == IF press = "ok" THEN Answers ELSE {<<>>}

\* Python's truth of an optional string
Truthy(opt) == opt # <<>> /\ opt[1] # ""

\* response_text: callback_response.message or callback_response.url
ResponseText(answer) ==
    IF answer = <<>> THEN <<>>
    ELSE IF Truthy(answer[1].message) THEN answer[1].message ELSE answer[1].url

\* the fields ClickButtonResponse declares
ClickButtonResponseFields ==
    {"success", "chat_id", "message_id", "button_clicked", "error"}

\* ClickButtonResponse(**kwargs): the model keeps its declared fields only (a
\* keyword that is not a field is ignored) and defaults the others to None
ClickButtonResponse(kwargs) ==
    [f \in ClickButtonResponseFields |->
        IF f \in DOMAIN kwargs THEN kwargs[f] ELSE <<>>]

ClickLookups ==
    { [direct |-> "found", history |-> <<>>, history_ok |-> TRUE],
      [direct |-> "none",  history |-> HistoryOf(1, 1, 0), history_ok |-> TRUE],
      [direct |-> "raise", history |-> HistoryOf(2, 2, 0), history_ok |-> TRUE],
      [direct |-> "raise", history |-> HistoryOf(1, 0, 0), history_ok |-> TRUE],
      [direct |-> "raise", history |-> <<>>, history_ok |-> FALSE] }

\* the click requests on the messages that carry one of the markups
ClickCalls(markups) ==
    {[pc |-> "request", message_id |-> TargetId,
      button_text |-> t, button_data |-> d,
      direct |-> l.direct, history |-> l.history, history_ok |-> l.history_ok,
      markup |-> m, press |-> a.press, answer |-> a.answer]
        : t \in RequestTexts, d \in RequestData, l \in ClickLookups,
          m \in markups,
          a \in {x \in [press : PressResults, answer : Answers] :
                    x.answer \in AnswersOf(x.press)}}

Response(status, detail, calls) ==
    [status |-> status, detail |-> detail, button |-> <<>>, button_clicked |-> <<>>,
     pressed |-> <<>>, calls |-> calls, body |-> <<>>]

\* the response of click_button to a request
ClickResponse(call) ==
    IF NeitherSupplied(call.button_text, call.button_data)
    THEN Response(400, "Either button_text or button_data must be provided", <<>>)
    ELSE LET found == get_message_by_id(call, call.message_id)
         IN
         IF found.kind = "raise" THEN Response(500, "error", found.calls)
         ELSE IF found.kind = "none" THEN Response(404, "Message not found", found.calls)
         ELSE IF call.markup.kind = "none"
         THEN Response(400, "Message has no inline keyboard", found.calls)
         ELSE IF call.markup.kind # "inline" THEN Response(500, "error", found.calls)
         ELSE LET kb == call.markup.inline_keyboard
                  hit == ScanButtons(kb, 1, 1, call.button_text, call.button_data)
                  calls == Append(found.calls, "request_callback_answer")
              IN
              IF hit.kind = "raise" THEN Response(500, "error", found.calls)
              ELSE IF hit.kind = "none" THEN Response(404, "Button not found", found.calls)
              ELSE [status |-> CASE call.press = "ok" -> 200
                                 [] call.press = "Flood" -> 429
                                 [] OTHER -> 500,
                    detail |-> IF call.press = "ok" THEN "" ELSE "error",
                    button |-> <<hit.row, hit.col>>,
                    button_clicked |-> IF call.press = "ok"
                                       THEN <<kb[hit.row][hit.col].text>> ELSE <<>>,
                    pressed |-> <<hit.data>>,
                    calls |-> calls,
                    body |-> IF call.press = "ok"
                             THEN <<ClickButtonResponse(
                                     [success |-> <<TRUE>>,
                                      chat_id |-> <<"chat">>,
                                      message_id |-> <<call.message_id>>,
                                      button_clicked |-> <<kb[hit.row][hit.col].text>>,
                                      callback_response |-> ResponseText(call.answer)])>>
                             ELSE <<>>]

(***************************************************************************)
(* The request handlers' translation of a failure of their remote call.    *)
(***************************************************************************)
Handlers == {"get_me", "send_message", "click_button", "get_buttons",
             "get_messages", "get_chats", "download_media"}

\* the remote calls of a handler whose failure reaches its except clauses
\* (a failure of the direct lookup of get_message_by_id is caught there)
RemoteCalls(handler) ==
    CASE handler = "get_me" -> {"get_me"}
      [] handler = "send_message" -> {"send_message"}
      [] handler = "click_button" -> {"get_chat_history", "request_callback_answer"}
      [] handler = "get_buttons" -> {"get_chat_history"}
      [] handler = "get_messages" -> {"get_chat_history"}
      [] handler = "get_chats" -> {"get_dialogs"}
      [] OTHER -> {"download_media"}

\* the error classes the module imports, and any other exception
ErrorClasses == SendFailures

\* the seconds a Flood error tells the caller to wait (e.value)
WaitSeconds == {3, 30}

RemoteErrors ==
    {[cls |-> c, value |-> 0] : c \in ErrorClasses \ {"Flood"}}
    \cup {[cls |-> "Flood", value |-> v] : v \in WaitSeconds}

\* the classes an error is an instance of
Bases(cls) ==
    {cls, "Exception"}
    \cup (IF cls \in {"PeerIdInvalid", "UserNotParticipant", "ChannelPrivate"}
          THEN {"BadRequest"} ELSE {})

Clause(cls, status, detail) == [cls |-> cls, status |-> status, detail |-> detail]

AnyException == Clause("Exception", 500, "str(e)")
InvalidPeer == Clause("PeerIdInvalid", 404, "Invalid chat_id or user not found")
PrivateChannel == Clause("ChannelPrivate", 403, "Cannot access private channel")
RateLimited == Clause("Flood", 429, "Rate limited. Please wait {e.value} seconds")

\* the except clauses of a handler for errors of the remote, in order
ExceptClauses(handler) ==
    CASE handler = "get_me" -> <<AnyException>>
      [] handler = "send_message" ->
            <<InvalidPeer,
              Clause("UserNotParticipant", 403, "Not a participant in this chat"),
              PrivateChannel,
              RateLimited,
              Clause("BadRequest", 400, "str(e)"),
              Clause("Unauthorized", 401, "Session expired or invalid"),
              AnyException>>
      [] handler = "click_button" -> <<RateLimited, AnyException>>
      [] handler = "get_buttons" -> <<InvalidPeer, AnyException>>
      [] handler = "get_messages" ->
            <<InvalidPeer, PrivateChannel, RateLimited, AnyException>>
      [] handler = "get_chats" -> <<RateLimited, AnyException>>
      [] OTHER -> <<RateLimited, AnyException>>

\* the first clause that catches the error
Catching(handler, error) ==
    LET clauses == ExceptClauses(handler)
        i == CHOOSE i \in DOMAIN clauses :
                /\ clauses[i].cls \in Bases(error.cls)
                /\ \A j \in 1..(i - 1) : clauses[j].cls \notin Bases(error.cls)
    IN  clauses[i]

\* the response of a handler whose remote call raised the error
ErrorResponse(handler, error) ==
    LET clause == Catching(handler, error)
    IN  [status |-> clause.status,
         detail |-> clause.detail,
         wait |-> IF clause.cls = "Flood" THEN <<error.value>> ELSE <<>>]

ErrorCalls ==
    {x \in [pc : {"request"}, handler : Handlers,
            call : UNION {RemoteCalls(g) : g \in Handlers}, error : RemoteErrors] :
        x.call \in RemoteCalls(x.handler)}

(***************************************************************************)
(* extract_media_info: the descriptor of a message's attachment.           *)
(***************************************************************************)
\* the attachment kinds, in the order the function tests them
MediaKinds ==
    <<"photo", "video", "animation", "document", "audio", "voice", "video_note",
      "sticker", "contact", "location", "venue", "poll", "dice", "game", "web_page">>

\* the factor a coordinate is scaled by
Scale == 1000000

\* coordinates are counted in units of 1/CoordinateUnit degree, so that a
\* coordinate can have a fraction of a millionth of a degree
CoordinateUnit == 10 * Scale

Coordinates == {-25, -5, 0, 5, 25}

Captions == {<<>>, <<"hi">>}

\* the attributes of a file-like attachment
Attachment == [file_id |-> <<"F1">>, width |-> <<640>>, height |-> <<480>>,
               duration |-> <<12>>]

MediaMessages ==
    {[pc |-> "call", media |-> None, attachment |-> Attachment,
      latitude |-> 0, longitude |-> 0, caption |-> c] : c \in Captions}
    \cup {[pc |-> "call", media |-> MediaKinds[k], attachment |-> Attachment,
           latitude |-> 0, longitude |-> 0, caption |-> c]
            : k \in DOMAIN MediaKinds \ {10}, c \in Captions}
    \cup {[pc |-> "call", media |-> "location", attachment |-> Attachment,
           latitude |-> la, longitude |-> lo, caption |-> c]
            : la \in Coordinates, lo \in Coordinates, c \in Captions}

\* Python's int() of a quotient: truncation toward zero
TruncDiv(n, d) == IF n >= 0 THEN n \div d ELSE -((-n) \div d)

\* int(coordinate * 1000000) if coordinate else None
Scaled(coordinate) ==
    IF coordinate = 0 THEN <<>>
    ELSE <<TruncDiv(coordinate * Scale, CoordinateUnit)>>

\* the branches that copy the attachment's file id, size and duration
CopiesFileId == {"photo", "video", "animation", "document", "audio", "voice",
                 "video_note", "sticker", "poll"}
CopiesSize == {"photo", "video", "animation", "video_note", "sticker", "web_page"}
CopiesDuration == {"video", "animation", "audio", "voice", "video_note"}

extract_media_info(message) ==
    IF message.media = None THEN <<>>
    ELSE LET kind == message.media
             att == message.attachment
         IN  <<[type |-> kind,
                file_id |-> IF kind \in CopiesFileId THEN att.file_id ELSE <<>>,
                width |-> IF kind = "location" THEN Scaled(message.latitude)
                          ELSE IF kind \in CopiesSize THEN att.width ELSE <<>>,
                height |-> IF kind = "location" THEN Scaled(message.longitude)
                           ELSE IF kind \in CopiesSize THEN att.height ELSE <<>>,
                duration |-> IF kind \in CopiesDuration THEN att.duration ELSE <<>>,
                caption |-> message.caption]>>

(***************************************************************************)
(* Init: the module-level state, for every configuration.                  *)
(***************************************************************************)
Init ==
    /\ WEBHOOK_URL \in {None, SinkUrl}
    /\ monitor_chat_ids \in {{}, {42}}
    /\ TRACK_EXPIRY_HOURS \in ExpiryChoices
    /\ my_user_id = None
    /\ tracked_messages = [c \in {} |-> <<>>]
    /\ pc = "start"
    /\ now = 0
    /\ wake = 0
    /\ sweeper = "none"
    /\ handlers = <<>>
    /\ swept = {}
    /\ last = [op |-> "init"]
    /\ LocateIdle /\ ClickIdle /\ ErrorsIdle /\ MediaIdle

(***************************************************************************)
(* lifespan: start the client, read the identity, register the handler,    *)
(* create the sweeper task, serve.                                         *)
(***************************************************************************)
StartRegistersHandler ==
    /\ pc = "start"
    /\ pc' = "running"
    /\ wake' = now + SweepInterval
    /\ sweeper' = "sleeping"
    /\ last' = [op |-> "start"]
    /\ UNCHANGED <<config, resolver, my_user_id, tracked_messages, now, handlers, swept>>

LifespanStart ==
    /\ pc = "start"
    /\ pc' = "started"
    /\ last' = [op |-> "start"]
    /\ UNCHANGED <<config, resolver, sweeper, my_user_id, tracked_messages, now, wake, handlers, swept>>

LifespanReady ==
    /\ pc = "started"
    /\ my_user_id' = Me
    /\ pc' = "running"
    /\ wake' = NextWake(now)
    /\ sweeper' = "sleeping"
    /\ last' = [op |-> "ready"]
    /\ UNCHANGED <<config, resolver, tracked_messages, now, handlers, swept>>

\* the clock
Tick ==
    /\ now < MaxTime
    /\ now' = now + 1
    /\ last' = [op |-> "tick"]
    /\ UNCHANGED <<config, resolver, sweeper, my_user_id, tracked_messages, pc, wake, handlers, swept>>

(***************************************************************************)
(* send_message                                                            *)
(***************************************************************************)
send_message(result) ==
    /\ pc = "running"
    /\ IF result.kind = "ok"
       THEN /\ TotalTracked(tracked_messages) < MaxTracked
            /\ tracked_messages' = Record(tracked_messages, result.chat_id, result.id, now)
            /\ swept' = swept \ {<<result.chat_id, result.id>>}
            /\ last' = [op |-> "send", status |-> SendStatus(result.kind),
                        message_id |-> result.id, chat |-> result.chat_id]
       ELSE /\ UNCHANGED <<tracked_messages, swept>>
            /\ last' = [op |-> "send", status |-> SendStatus(result.kind)]
    /\ UNCHANGED <<config, resolver, sweeper, my_user_id, pc, now, wake, handlers>>

(***************************************************************************)
(* cleanup_expired_tracking: one turn of the loop after the sleep          *)
(***************************************************************************)
\* one iteration of the loop after its sleep: the cutoff, the pruning and the
\* next sleep; nothing in the loop catches an exception, so one that the
\* iteration raises ends the task
cleanup_expired_tracking ==
    /\ pc = "running"
    /\ sweeper = "sleeping"
    /\ now >= wake
    /\ IF CutoffRaises(now, TRACK_EXPIRY_HOURS)
       THEN /\ sweeper' = "terminated"
            /\ last' = [op |-> "sweep_failed"]
            /\ UNCHANGED <<tracked_messages, swept, wake>>
       ELSE /\ LET cutoff == now - TRACK_EXPIRY_HOURS
               IN  /\ tracked_messages' = Prune(tracked_messages, cutoff)
                   /\ last' = [op |-> "sweep", cutoff |-> cutoff,
                               removed |-> TotalTracked(tracked_messages)
                                           - TotalTracked(Prune(tracked_messages, cutoff))]
            /\ swept' = swept \cup {p \in ChatIds \X MsgIds :
                                        /\ HasEntry(tracked_messages, p[1], p[2])
                                        /\ ~HasEntry(tracked_messages', p[1], p[2])}
            /\ wake' = NextWake(now)
            /\ UNCHANGED sweeper
    /\ UNCHANGED <<config, resolver, my_user_id, pc, now, handlers>>

(***************************************************************************)
(* handle_incoming_message up to its await of send_webhook's POST          *)
(***************************************************************************)
handle_incoming_message(message) ==
    /\ pc = "running"
    /\ IF Dispatches(message)
       THEN /\ Len(handlers) < MaxInFlight
            /\ handlers' = Append(handlers, [pc |-> "await_post", attempts |-> 1])
            /\ last' = [op |-> "incoming", message |-> message,
                        posts |-> Len(handlers') - Len(handlers),
                        payload |-> BuildPayload(message)]
       ELSE /\ UNCHANGED handlers
            /\ last' = [op |-> "incoming", message |-> message, posts |-> 0]
    /\ tracked_messages' = IF LookupReached(message)
                           THEN AfterGet(tracked_messages, message.chat_id)
                           ELSE tracked_messages
    /\ UNCHANGED <<config, resolver, sweeper, my_user_id, pc, now, wake, swept>>

(***************************************************************************)
(* send_webhook after the POST has ended, and the handler's return         *)
(***************************************************************************)
RemoveAt(s, i) == SubSeq(s, 1, i - 1) \o SubSeq(s, i + 1, Len(s))

send_webhook_done(i, outcome) ==
    /\ i \in DOMAIN handlers
    /\ handlers[i].pc = "await_post"
    /\ IF Retries(outcome)
       THEN /\ handlers' = [handlers EXCEPT ![i].attempts = @ + 1]
            /\ last' = [op |-> "webhook_retry", outcome |-> outcome]
       ELSE /\ handlers' = RemoveAt(handlers, i)
            /\ last' = [op |-> "webhook_done", outcome |-> outcome,
                        attempts |-> handlers[i].attempts,
                        handler |-> IF outcome \in Exceptions /\ ~Caught(outcome)
                                    THEN "raised" ELSE "returned"]
    /\ UNCHANGED <<config, resolver, sweeper, my_user_id, tracked_messages, pc, now, wake, swept>>

Next ==
    \/ LifespanStart
    \/ LifespanReady
    \/ Tick
    \/ \E result \in SendResults : send_message(result)
    \/ cleanup_expired_tracking
    \/ \E message \in Messages : handle_incoming_message(message)
    \/ \E i \in 1..MaxInFlight, outcome \in Outcomes : send_webhook_done(i, outcome)

Spec == Init /\ [][Next]_vars

(***************************************************************************)
(* SpecFair: the program without a sink, under a clock that honours the    *)
(* sweeper's hourly timer and a fair scheduling of the sweeper.            *)
(***************************************************************************)
InitFair ==
    /\ WEBHOOK_URL = None
    /\ monitor_chat_ids = {}
    /\ TRACK_EXPIRY_HOURS \in ExpiryChoices
    /\ my_user_id = None
    /\ tracked_messages = [c \in {} |-> <<>>]
    /\ pc = "start"
    /\ now = 0
    /\ wake = 0
    /\ sweeper = "none"
    /\ handlers = <<>>
    /\ swept = {}
    /\ last = [op |-> "init"]
    /\ LocateIdle /\ ClickIdle /\ ErrorsIdle /\ MediaIdle

\* the sweeper's sleep has ended and its iteration has not run yet
SweepDue == pc = "running" /\ sweeper = "sleeping" /\ now >= wake

\* the clock, when the event loop resumes the sweeper in the hour its sleep
\* ends: an hour does not pass while a sweep is due
HourPasses ==
    /\ now < MaxFairTime
    /\ ~SweepDue
    /\ now' = now + 1
    /\ last' = [op |-> "tick"]
    /\ UNCHANGED <<config, resolver, sweeper, my_user_id, tracked_messages, pc, wake,
                   handlers, swept>>

\* the sends and inbound events that interleave with the sweeps: every
\* successful send and a failing one, a plain message and a reply
FairSends == {r \in SendResults : r.kind \in {"ok", "Flood"}}
FairMessages ==
    {m \in Messages :
        /\ m.chat_id = 42
        /\ m.reply_to_message \in {<<>>, <<[id |-> 7, from_user |-> None]>>}}

NextFair ==
    \/ LifespanStart
    \/ LifespanReady
    \/ HourPasses
    \/ \E result \in FairSends : send_message(result)
    \/ cleanup_expired_tracking
    \/ \E message \in FairMessages : handle_incoming_message(message)

SpecFair == InitFair /\ [][NextFair]_vars /\ WF_vars(cleanup_expired_tracking)

(***************************************************************************)
(* SpecSweeper: the same program, also under a horizon whose cutoff is      *)
(* before datetime.min.                                                    *)
(***************************************************************************)
InitSweeper ==
    /\ WEBHOOK_URL = SinkUrl
    /\ monitor_chat_ids = {}
    /\ TRACK_EXPIRY_HOURS \in {1, OverflowingHours}
    /\ my_user_id = None
    /\ tracked_messages = [c \in {} |-> <<>>]
    /\ pc = "start"
    /\ now = 0
    /\ wake = 0
    /\ sweeper = "none"
    /\ handlers = <<>>
    /\ swept = {}
    /\ last = [op |-> "init"]
    /\ LocateIdle /\ ClickIdle /\ ErrorsIdle /\ MediaIdle

SpecSweeper == InitSweeper /\ [][Next]_vars

(***************************************************************************)
(* SpecLocate: get_message_by_id on every direct result and history.       *)
(***************************************************************************)
TrackingIdle ==
    /\ WEBHOOK_URL = None
    /\ monitor_chat_ids = {}
    /\ TRACK_EXPIRY_HOURS = 1
    /\ my_user_id = Me
    /\ tracked_messages = [c \in {} |-> <<>>]
    /\ pc = "running"
    /\ now = 0
    /\ wake = SweepInterval
    /\ sweeper = "sleeping"
    /\ handlers = <<>>
    /\ swept = {}
    /\ last = [op |-> "ready"]

InitLocate ==
    /\ TrackingIdle
    /\ locate_call \in LocateCalls
    /\ locate_result = [kind |-> "idle"]
    /\ ClickIdle /\ ErrorsIdle /\ MediaIdle

locate_message ==
    /\ locate_call.pc = "call"
    /\ locate_result' = get_message_by_id(locate_call, locate_call.message_id)
    /\ locate_call' = [locate_call EXCEPT !.pc = "returned"]
    /\ UNCHANGED <<config, tracking, clicking, failing, extracting>>

NextLocate == locate_message

SpecLocate == InitLocate /\ [][NextLocate]_vars

(***************************************************************************)
(* SpecClick: click_button on every request, lookup, keyboard and press.   *)
(***************************************************************************)
InitClick ==
    /\ TrackingIdle
    /\ LocateIdle /\ ErrorsIdle /\ MediaIdle
    /\ click_call \in ClickCalls(Markups)
    /\ click_response = [status |-> 0]

click_button ==
    /\ click_call.pc = "request"
    /\ click_response' = ClickResponse(click_call)
    /\ click_call' = [click_call EXCEPT !.pc = "done"]
    /\ UNCHANGED <<config, tracking, locating, failing, extracting>>

NextClick == click_button

SpecClick == InitClick /\ [][NextClick]_vars

(***************************************************************************)
(* SpecErrors: every handler on every failure of its remote call.          *)
(***************************************************************************)
InitErrors ==
    /\ TrackingIdle
    /\ LocateIdle /\ ClickIdle /\ MediaIdle
    /\ error_call \in ErrorCalls
    /\ error_response = [status |-> 0]

handle_remote_error ==
    /\ error_call.pc = "request"
    /\ error_response' = ErrorResponse(error_call.handler, error_call.error)
    /\ error_call' = [error_call EXCEPT !.pc = "done"]
    /\ UNCHANGED <<config, tracking, locating, clicking, extracting>>

NextErrors == handle_remote_error

SpecErrors == InitErrors /\ [][NextErrors]_vars

(***************************************************************************)
(* SpecMedia: extract_media_info on every message.                         *)
(***************************************************************************)
InitMedia ==
    /\ TrackingIdle
    /\ LocateIdle /\ ClickIdle /\ ErrorsIdle
    /\ media_message \in MediaMessages
    /\ media_info = <<>>

extract ==
    /\ media_message.pc = "call"
    /\ media_info' = extract_media_info(media_message)
    /\ media_message' = [media_message EXCEPT !.pc = "returned"]
    /\ UNCHANGED <<config, tracking, locating, clicking, failing>>

NextMedia == extract

SpecMedia == InitMedia /\ [][NextMedia]_vars

(***************************************************************************)
(* Claims over Spec.  `last` describes the step just taken, so a state     *)
(* predicate over `last` speaks of that step's outcome; the steps that an  *)
(* inbound message or a delivery takes leave the store as it was.          *)
(***************************************************************************)
Handled(message) == last.op = "incoming" /\ last.message = message
Allowed(chat_id) == monitor_chat_ids = {} \/ chat_id \in monitor_chat_ids
Tracked(store, chat_id, mid) ==
    chat_id \in DOMAIN store /\ mid \in {store[chat_id][i][1] : i \in DOMAIN store[chat_id]}
Stale(chat_id, mid) ==
    /\ Tracked(tracked_messages, chat_id, mid)
    /\ \A i \in DOMAIN tracked_messages[chat_id] :
          tracked_messages[chat_id][i][1] = mid
              => tracked_messages[chat_id][i][2] <= now - TRACK_EXPIRY_HOURS

\* C1: with a sink configured and the chat allowed, an inbound reply to an id
\* present in the chat's tracked sequence causes exactly one dispatch, with
\* event "reply_received" and reply_to_message.id the replied-to id, also when
\* the entry is past the horizon and not yet swept.
C1_TrackedReplyDispatchesOnce ==
    \A m \in Messages :
        ( /\ Handled(m)
          /\ WEBHOOK_URL # None
          /\ Allowed(m.chat_id)
          /\ m.reply_to_message # <<>>
          /\ Tracked(tracked_messages, m.chat_id, m.reply_to_message[1].id) )
        => /\ last.posts = 1
           /\ Len(handlers) >= 1
           /\ last.payload.event = "reply_received"
           /\ last.payload.chat_id = m.chat_id
           /\ last.payload.reply_to_message.id = m.reply_to_message[1].id

C1_Witness ==
    /\ last.op = "incoming"
    /\ last.posts = 1
    /\ last.message.reply_to_message # <<>>
    /\ last.message.reply_to_message[1].from_user # Me
    /\ Stale(last.message.chat_id, last.message.reply_to_message[1].id)

\* C2: nothing is dispatched when no sink is configured, when an allow-list
\* is set and the chat is not in it, when the message is not a reply, or when
\* the replied-to id is not tracked in the chat and the replied-to sender
\* (absent included) is not the account's own id.
C2_NoDispatchCases ==
    \A m \in Messages :
        ( /\ Handled(m)
          /\ \/ WEBHOOK_URL = None
             \/ (monitor_chat_ids # {} /\ m.chat_id \notin monitor_chat_ids)
             \/ m.reply_to_message = <<>>
             \/ /\ m.reply_to_message # <<>>
                /\ ~Tracked(tracked_messages, m.chat_id, m.reply_to_message[1].id)
                /\ m.reply_to_message[1].from_user # Me )
        => last.posts = 0

C2_Witness ==
    /\ last.op = "incoming"
    /\ last.posts = 0
    /\ WEBHOOK_URL # None
    /\ Allowed(last.message.chat_id)
    /\ last.message.reply_to_message # <<>>
    /\ last.message.reply_to_message[1].from_user = None
    /\ ~Tracked(tracked_messages, last.message.chat_id,
                last.message.reply_to_message[1].id)
    /\ tracked_messages # << >>

\* C3: a successful send that returns id m in chat C appends (m, now) at the
\* end of C's sequence and changes nothing else, so m is tracked at once; a
\* failed send leaves the store as it was; a tracked id stops being tracked
\* only by a step of the sweeper.
C3_SendRecords ==
    [][ /\ (last'.op = "send" /\ last'.status = 200)
            => /\ DOMAIN tracked_messages' = DOMAIN tracked_messages \cup {last'.chat}
               /\ tracked_messages'[last'.chat] =
                     (IF last'.chat \in DOMAIN tracked_messages
                      THEN tracked_messages[last'.chat] ELSE <<>>)
                     \o <<<<last'.message_id, now>>>>
               /\ \A c \in DOMAIN tracked_messages \ {last'.chat} :
                     tracked_messages'[c] = tracked_messages[c]
               /\ Tracked(tracked_messages', last'.chat, last'.message_id)
        /\ (last'.op = "send" /\ last'.status # 200)
            => tracked_messages' = tracked_messages
        /\ \/ tracked_messages' = tracked_messages
           \/ \A c \in ChatIds, m \in MsgIds :
                 (Tracked(tracked_messages, c, m) /\ ~Tracked(tracked_messages', c, m))
                     => last'.op = "sweep"
      ]_vars

C3_Witness ==
    /\ last.op = "send"
    /\ last.status = 200
    /\ Len(tracked_messages[last.chat]) = 2
    /\ tracked_messages[last.chat][2] = <<last.message_id, now>>
    /\ tracked_messages[last.chat][1] # tracked_messages[last.chat][2]

\* C4: right after a prune at time now with horizon H no entry has
\* createdAt <= now - H, no chat maps to an empty sequence, and the entries
\* with createdAt > now - H are all still there, unchanged, in their order.
SurvivorsOf(entries, after, cutoff) ==
    \E f \in [DOMAIN after -> DOMAIN entries] :
        /\ \A i, j \in DOMAIN after : i < j => f[i] < f[j]
        /\ \A i \in DOMAIN after : after[i] = entries[f[i]]
        /\ \A k \in DOMAIN entries :
              (entries[k][2] > cutoff) <=> (\E i \in DOMAIN after : f[i] = k)

C4_PruneContract ==
    [][ last'.op = "sweep"
        => LET cutoff == now - TRACK_EXPIRY_HOURS
           IN  /\ \A c \in DOMAIN tracked_messages' :
                     /\ tracked_messages'[c] # <<>>
                     /\ \A i \in DOMAIN tracked_messages'[c] :
                           ~(tracked_messages'[c][i][2] <= cutoff)
               /\ DOMAIN tracked_messages' \subseteq DOMAIN tracked_messages
               /\ \A c \in DOMAIN tracked_messages :
                     SurvivorsOf(tracked_messages[c],
                                 IF c \in DOMAIN tracked_messages'
                                 THEN tracked_messages'[c] ELSE <<>>,
                                 cutoff)
      ]_vars

C4_Witness ==
    /\ last.op = "sweep"
    /\ last.removed >= 1
    /\ tracked_messages # << >>
    /\ Cardinality(swept) >= 1

\* C5: a delivery is attempted once; whatever its outcome the handler that
\* awaited it returns normally, nothing is posted again, and the store is
\* left as it was.
C5_DeliveryFailureSwallowed ==
    [][ last'.op \in {"webhook_done", "webhook_retry"}
        => /\ last'.op = "webhook_done"
           /\ last'.attempts = 1
           /\ last'.handler = "returned"
           /\ Len(handlers') = Len(handlers) - 1
           /\ tracked_messages' = tracked_messages
      ]_vars

C5_Witness ==
    /\ last.op = "webhook_done"
    /\ last.outcome = "connect_error"
    /\ last.handler = "returned"
    /\ tracked_messages # << >>

\* C6 (as claimed): the handler invocation that triggered a dispatch has
\* completed while its delivery is still in flight, i.e. no handler
\* invocation is ever suspended on the POST.
C6_HandlerDoesNotAwaitDelivery ==
    \A i \in DOMAIN handlers : handlers[i].pc # "await_post"

LabelContains(button, text) ==
    \E i \in 1..Len(button.text) : \E j \in i..Len(button.text) :
        /\ j - i + 1 = Len(text)
        /\ \A k \in 1..Len(text) : Lower(button.text[i + k - 1]) = Lower(text[k])

DataAsText(button) ==
    IF button.callback_data.type = "str" THEN <<button.callback_data.value>>
    ELSE IF button.callback_data.type = "bytes" /\ Utf8Valid(button.callback_data.value)
    THEN <<Utf8Decode(button.callback_data.value)>>
    ELSE <<>>

ClaimedMatch(button, text, data) ==
    IF text # <<>> THEN LabelContains(button, text) ELSE DataAsText(button) = <<data>>

Positions(kb) == {p \in (DOMAIN kb) \X (1..MaxButtons) : p[2] \in DOMAIN kb[p[1]]}

Before(p, q) == p[1] < q[1] \/ (p[1] = q[1] /\ p[2] < q[2])

FirstIn(S) == CHOOSE p \in S : \A q \in S \ {p} : Before(p, q)

ClickedAMessage ==
    /\ click_call.pc = "done"
    /\ \/ click_call.direct = "found"
       \/ /\ click_call.direct = "raise"
          /\ click_call.history_ok
          /\ \E i \in DOMAIN click_call.history :
                i <= HistoryLimit /\ click_call.history[i].id = click_call.message_id
    /\ click_call.markup.kind = "inline"

ExactlyOneSupplied ==
    (click_call.button_text = <<>>) # (click_call.button_data = <<>>)

FirstMatchPressed(decodable_only) ==
    ( /\ ClickedAMessage
      /\ ExactlyOneSupplied
      /\ decodable_only =>
            \A p \in Positions(click_call.markup.inline_keyboard) :
                ~DecodeRaises(click_call.markup.inline_keyboard[p[1]][p[2]].callback_data) )
    => LET kb == click_call.markup.inline_keyboard
           hits == {p \in Positions(kb) :
                      ClaimedMatch(kb[p[1]][p[2]], click_call.button_text,
                                   click_call.button_data)}
       IN  IF hits = {}
           THEN /\ click_response.status = 404
                /\ click_response.detail = "Button not found"
                /\ click_response.pressed = <<>>
                /\ \A i \in DOMAIN click_response.calls :
                      click_response.calls[i] # "request_callback_answer"
           ELSE /\ click_response.button = FirstIn(hits)
                /\ click_response.pressed # <<>>
                /\ LET b == kb[FirstIn(hits)[1]][FirstIn(hits)[2]]
                   IN  IF DataAsText(b) = <<>>
                       THEN click_response.pressed[1].type = "none"
                       ELSE click_response.pressed[1].value = DataAsText(b)[1]
                /\ click_response.calls[Len(click_response.calls)]
                      = "request_callback_answer"

\* C8 (as claimed): the click selects the first button, rows top to bottom and
\* columns left to right, whose label contains the text case-insensitively
\* (text supplied) or whose callback data, decoded as text, equals the data
\* exactly (data supplied), and presses it; with no such button the result is
\* not-found and nothing is pressed.
C8_FirstMatchSelected == FirstMatchPressed(FALSE)

\* C8 on the keyboards all of whose bytes callback data is valid UTF-8
C8_FirstMatchSelectedWhenDecodable == FirstMatchPressed(TRUE)

FirstTwenty(history) == {i \in DOMAIN history : i <= HistoryLimit}

\* C9 (as claimed): the message of the direct lookup when it yields one; else
\* the first of the 20 most recent history entries with the id; not-found
\* only when the id is absent from the direct lookup and from those entries.
C9_NotFoundOnlyWhenAbsentFromBoth ==
    (locate_call.pc = "returned" /\ locate_call.history_ok)
    => /\ locate_call.direct = "found"
            => locate_result.kind = "msg" /\ locate_result.msg.pos = 0
       /\ locate_result.kind = "none"
            => /\ locate_call.direct # "found"
               /\ \A i \in FirstTwenty(locate_call.history) :
                     locate_call.history[i].id # locate_call.message_id

\* C9 (amended): the message of the direct lookup when it yields one; when
\* the direct lookup raises, the first of the 20 most recent history entries
\* with the id, not-found when none of them has it, the error when reading the
\* history fails too; when the direct lookup returns nothing without raising,
\* not-found at once, the history not read.
C9_FallbackOnlyWhenLookupRaises ==
    locate_call.pc = "returned"
    => LET h == locate_call.history
           hits == {i \in FirstTwenty(h) : h[i].id = locate_call.message_id}
       IN  /\ locate_call.direct = "found"
                => /\ locate_result.kind = "msg"
                   /\ locate_result.msg = [id |-> locate_call.message_id, pos |-> 0]
                   /\ locate_result.calls = <<"get_messages">>
           /\ locate_call.direct = "none"
                => /\ locate_result.kind = "none"
                   /\ locate_result.calls = <<"get_messages">>
           /\ (locate_call.direct = "raise" /\ ~locate_call.history_ok)
                => locate_result.kind = "raise"
           /\ (locate_call.direct = "raise" /\ locate_call.history_ok /\ hits = {})
                => locate_result.kind = "none"
           /\ (locate_call.direct = "raise" /\ locate_call.history_ok /\ hits # {})
                => /\ locate_result.kind = "msg"
                   /\ locate_result.msg = h[CHOOSE i \in hits : \A j \in hits : i <= j]

C9_Witness ==
    /\ locate_call.pc = "returned"
    /\ locate_call.direct = "raise"
    /\ Len(locate_call.history) > HistoryLimit
    /\ locate_call.history[HistoryLimit].id = locate_call.message_id
    /\ \A i \in 1..(HistoryLimit - 1) : locate_call.history[i].id # locate_call.message_id
    /\ locate_result.kind = "msg"
    /\ locate_result.msg.pos = HistoryLimit

\* C10 (as claimed): a request with neither text nor data, and a request with
\* both, is rejected as a caller error before anything is looked up, matched
\* or pressed.
C10_ExactlyOneRequired ==
    (click_call.pc = "done" /\ ~ExactlyOneSupplied)
    => /\ click_response.status = 400
       /\ click_response.button = <<>>
       /\ click_response.pressed = <<>>

\* C10 (amended): a request with neither is rejected as a caller error before
\* anything is looked up, matched or pressed, and no other request is; a
\* request with both is served as the same request without the data.
C10_NeitherRejectedBothByText ==
    click_call.pc = "done"
    => LET neither == click_call.button_text = <<>> /\ click_call.button_data = <<>>
           both == click_call.button_text # <<>> /\ click_call.button_data # <<>>
           rejected == click_response.detail
                          = "Either button_text or button_data must be provided"
       IN  /\ neither => /\ rejected
                         /\ click_response.status = 400
                         /\ click_response.calls = <<>>
                         /\ click_response.button = <<>>
                         /\ click_response.pressed = <<>>
           /\ rejected => neither
           /\ both => click_response
                        = ClickResponse([click_call EXCEPT !.button_data = <<>>])

C10_Witness ==
    /\ click_call.pc = "done"
    /\ click_call.button_text # <<>>
    /\ click_call.button_data # <<>>
    /\ click_response.status = 200
    /\ click_response.pressed[1].type = "str"
    /\ click_response.pressed[1].value # click_call.button_data

(***************************************************************************)
(* Claims over SpecClick: the answer of a successful click.                *)
(***************************************************************************)
ClickSucceeded == click_call.pc = "done" /\ click_response.status = 200

\* the string the press produced: the acknowledgment text or, without one,
\* the redirect URL
Produced(answer) ==
    IF answer = <<>> THEN <<>>
    ELSE IF answer[1].message \notin {<<>>, <<"">>} THEN answer[1].message
    ELSE answer[1].url

\* the optional string a response body carries (absent: <<>>)
Returned(body) ==
    IF "callback_response" \in DOMAIN body THEN body.callback_response ELSE <<>>

\* C11 (as claimed): a successful click returns in its response, as a single
\* optional string, the bot's acknowledgment text or, when there is none, the
\* redirect URL; the string is absent only when the press produced neither.
C11_AnswerReturned ==
    ClickSucceeded => Returned(click_response.body[1]) = Produced(click_call.answer)

\* C11, what the code does: the response of a successful click carries the
\* label of the pressed button and never the string the press produced
C11_AnswerDropped ==
    ClickSucceeded =>
        /\ DOMAIN click_response.body[1] = ClickButtonResponseFields
        /\ click_response.body[1].button_clicked = click_response.button_clicked
        /\ click_response.body[1].error = <<>>

C11_PressProducedText ==
    /\ ClickSucceeded
    /\ Produced(click_call.answer) = <<"Done">>

(***************************************************************************)
(* Claims over SpecErrors.                                                 *)
(***************************************************************************)
\* the error kinds of the taxonomy (every class but the catch-all)
ErrorKinds == ErrorClasses \ {"Exception"}

Failed(handler, cls) ==
    /\ error_call.pc = "done"
    /\ error_call.handler = handler
    /\ error_call.error.cls = cls

\* C12 (as claimed): every handler preserves the kind of a remote failure: for
\* each kind the status depends only on the kind and is the same in every
\* handler, a rate limit is reported with its wait seconds, and no kind is
\* reported as Unexpected (500).
C12_KindPreserved ==
    (error_call.pc = "done" /\ error_call.error.cls \in ErrorKinds) =>
        /\ error_response.status # 500
        /\ \A h \in Handlers :
              ErrorResponse(h, error_call.error).status = error_response.status
        /\ error_call.error.cls = "Flood"
              => error_response.wait = <<error_call.error.value>>

\* C12, what the code does: the send handler preserves every kind
C12_SendPreservesKinds ==
    (error_call.pc = "done" /\ error_call.handler = "send_message") =>
        /\ error_response.status = SendStatus(error_call.error.cls)
        /\ error_call.error.cls \in ErrorKinds => error_response.status # 500
        /\ error_call.error.cls = "Flood"
              => error_response.wait = <<error_call.error.value>>

\* C12, what the code does: the own-identity handler reports every kind as
\* Unexpected
C12_GetMeReportsUnexpected ==
    (error_call.pc = "done" /\ error_call.handler = "get_me") =>
        error_response.status = 500 /\ error_response.wait = <<>>

(***************************************************************************)
(* Claims over SpecMedia.                                                  *)
(***************************************************************************)
ExtractedLocation == media_message.pc = "returned" /\ media_message.media = "location"

\* a coordinate multiplied by 1,000,000, as an integer
Millionths(coordinate) == TruncDiv(coordinate * Scale, CoordinateUnit)

\* C13 (as claimed): for every message whose attachment is a location, for
\* every latitude and longitude (zero included), the descriptor has kind
\* location, width the latitude multiplied by 1,000,000 and height the
\* longitude multiplied by 1,000,000, as integers, and no fileId.
C13_LocationScaled ==
    ExtractedLocation =>
        /\ media_info # <<>>
        /\ media_info[1].type = "location"
        /\ media_info[1].width = <<Millionths(media_message.latitude)>>
        /\ media_info[1].height = <<Millionths(media_message.longitude)>>
        /\ media_info[1].file_id = <<>>

\* C13, what the code does: a coordinate that is exactly zero is left out of
\* the descriptor, every other one is scaled as claimed
C13_LocationScaledUnlessZero ==
    ExtractedLocation =>
        /\ media_info # <<>>
        /\ media_info[1].type = "location"
        /\ media_info[1].width = IF media_message.latitude = 0 THEN <<>>
                                  ELSE <<Millionths(media_message.latitude)>>
        /\ media_info[1].height = IF media_message.longitude = 0 THEN <<>>
                                   ELSE <<Millionths(media_message.longitude)>>
        /\ media_info[1].file_id = <<>>
        /\ media_info[1].caption = media_message.caption

(***************************************************************************)
(* Claims over SpecSweeper.                                                *)
(***************************************************************************)
\* C14 (as claimed): if pruning fails during one tick of the sweeper, the
\* failure is caught and the sweep loop continues; a failing tick never
\* terminates the sweeper for the rest of the process lifetime.
C14_FailingTickDoesNotTerminate ==
    [][last'.op = "sweep_failed" => sweeper' = "sleeping"]_vars

\* C14, what the code does: once a tick has failed the sweeper never runs
\* again and the store is never pruned again
C14_TerminatedSweeperNeverPrunes ==
    [][sweeper = "terminated" =>
          /\ sweeper' = "terminated"
          /\ last'.op # "sweep"
          /\ \A c \in ChatIds, m \in MsgIds :
                Tracked(tracked_messages, c, m) => Tracked(tracked_messages', c, m)]_vars

(***************************************************************************)
(* Claims over SpecFair.                                                   *)
(***************************************************************************)
\* the times an entry can have been recorded at
Times == 0..MaxFairTime

Present(chat_id, mid, ts) ==
    /\ chat_id \in DOMAIN tracked_messages
    /\ \E i \in DOMAIN tracked_messages[chat_id] :
          tracked_messages[chat_id][i] = <<mid, ts>>

\* the age of an entry recorded at ts
Age(ts) == now - ts

\* the entries of the store that are older than the horizon; an entry that is
\* in this set stays in it for as long as it is in the store, the clock never
\* going back, so the set is empty only when each of them has been removed
ExpiredEntries ==
    {e \in ChatIds \X MsgIds \X Times :
        Present(e[1], e[2], e[3]) /\ Age(e[3]) > TRACK_EXPIRY_HOURS}

\* C15: under a fair scheduling of the hourly sweeper, every entry recorded in
\* the store is eventually removed once it is older than the expiry horizon,
\* whatever sends and inbound events interleave with the sweeps; and no entry
\* older than the horizon by more than one sweep interval is ever present
\* (before the first sweep too).
C15_ExpiredEventuallyRemoved ==
    /\ (ExpiredEntries # {}) ~> (ExpiredEntries = {})
    /\ [](\A c \in ChatIds, m \in MsgIds, ts \in Times :
            Present(c, m, ts) => Age(ts) <= TRACK_EXPIRY_HOURS + SweepInterval)

\* a sweep has removed an entry that was older than the horizon, while sends
\* left a younger one in the store
C15_Witness ==
    /\ last.op = "sweep"
    /\ last.removed >= 1
    /\ now >= 2
    /\ \E c \in ChatIds, m \in MsgIds : <<c, m>> \in swept /\ ~Tracked(tracked_messages, c, m)
    /\ \E c \in ChatIds, m \in MsgIds : Present(c, m, now)

(***************************************************************************)
(* Claims over Spec: the classifier and the store.                         *)
(***************************************************************************)
NoEmptySequence == \A c \in DOMAIN tracked_messages : tracked_messages[c] # <<>>

\* C16: classifying an inbound message never changes the tracked-message
\* store, whether or not a dispatch results: no entry is added, removed or
\* reordered, a matched entry is not consumed (a later reply to the same id
\* still matches), and the lookup of a chat that has no entries creates no
\* empty sequence for it; no chat key maps to an empty sequence in any
\* reachable state.
C16_ClassifierLeavesStore ==
    /\ []NoEmptySequence
    /\ [][last'.op = "incoming" =>
            /\ tracked_messages' = tracked_messages
            /\ \A c \in ChatIds, m \in MsgIds :
                  IsReplyToTracked(tracked_messages', c, m)
                      = IsReplyToTracked(tracked_messages, c, m)]_vars

\* a reply in a chat that has no entries has been classified and dispatched
\* while another chat has entries
C16_Witness ==
    /\ last.op = "incoming"
    /\ LookupReached(last.message)
    /\ last.posts = 1
    /\ last.message.chat_id \notin DOMAIN tracked_messages
    /\ tracked_messages # << >>
====
